---- MODULE Spec2Model ----
(***************************************************************************)
(* The webhook notification fan-out function                               *)
(* (supabase/functions/send-webhook-notification/index.ts).                *)
(*                                                                         *)
(* One request handler: CORS preflight, JSON body parsing, required-field  *)
(* validation, lookup of the workspace's active integrations, in-process   *)
(* filtering by notification type, one concurrent POST per relevant        *)
(* integration gathered with Promise.allSettled, and an aggregated         *)
(* response.  Each action is one run of the handler between two awaits.    *)
(*                                                                         *)
(* JSON objects are functions from the keys they hold to their values, so  *)
(* a missing key (undefined) differs from an empty string.                 *)
(***************************************************************************)
EXTENDS Integers, Sequences, FiniteSets, TLC

VARIABLES
    db,                    \* table workspace_integrations: id -> row
    lastEdit,              \* the administrators' latest edit of the table
    parked,                \* the locals of an invocation waiting at an await
    pc,                    \* where the handler is suspended
    req,                   \* the request being handled
    lookups,               \* queries issued to the table by this invocation
    queryOutcome,          \* how the query of line 186 ended
    integrations,          \* data returned by the query (line 186)
    relevantIntegrations,  \* line 201
    posts,                 \* outbound fetch() calls of this invocation, in order
    results,               \* one promise per relevant integration (line 215)
    response,              \* the Response returned by the handler
    call,                  \* one run of the per-integration dispatch callback
    requireApproval,       \* publish-settings panel: the approval switch
    approvalRoles,         \* publish-settings panel: the selected approver roles
    lastToggle,            \* publish-settings panel: the latest checkbox event
    workspaces,            \* table workspaces, in insertion order
    creators               \* the createWorkspace calls in progress

\* the state of the notifier
notifier == <<db, lastEdit, parked, pc, req, lookups, queryOutcome,
              integrations, relevantIntegrations, posts, results, response>>

panel == <<requireApproval, approvalRoles, lastToggle>>

creation == <<workspaces, creators>>

\* the state of the rest of the application
outside == <<call, panel, creation>>

vars == <<db, lastEdit, parked, pc, req, lookups, queryOutcome, integrations,
          relevantIntegrations, posts, results, response, call,
          requireApproval, approvalRoles, lastToggle, workspaces, creators>>

----------------------------------------------------------------------------
(* Bounds *)

\* rows of workspace_integrations
MaxIntegrations == 3

Ids == 1..MaxIntegrations

----------------------------------------------------------------------------
(* JSON helpers *)

Has(obj, key) == key \in DOMAIN obj

\* JavaScript truthiness of a string-valued property: present and not "".
Truthy(obj, key) == Has(obj, key) /\ obj[key] # ""

Put(obj, key, val) ==
    [k \in DOMAIN obj \cup {key} |-> IF k = key THEN val ELSE obj[k]]

EmptyObject == <<>>

\* payload.metadata?.field is truthy
MetaTruthy(payload, field) ==
    Has(payload, "metadata") /\ Truthy(payload["metadata"], field)

----------------------------------------------------------------------------
(* Inputs *)

Workspaces == {"w1", "w2"}

\* "custom" is a type outside the WebhookPayload enumeration.
RequestTypes == {"broadcast", "custom"}

\* subscriptions a row can hold (notification_types: string[])
TypeSets == {{"broadcast"}, {"task_assignment", "custom"}}

Platforms == <<"slack", "discord", "teams", "webhook">>

PlatformOf(i) == Platforms[((i - 1) % Len(Platforms)) + 1]

UrlOf(i) == <<"https://hooks.example/", i>>

RequiredFields == {"workspace_id", "notification_type", "title"}

FullMetadata ==
    [task_id |-> "t1", sender_name |-> "Ada", due_date |-> "2025-01-10",
     priority |-> "high", url |-> "https://app/t1"]

BasePayload ==
    [workspace_id |-> "w1", notification_type |-> "broadcast",
     title |-> "Hi", message |-> "Hello all"]

\* well-formed payloads: every required field present and non-empty
ValidPayloads ==
    { Put(BasePayload, "notification_type", t) : t \in RequestTypes }
    \cup { Put(BasePayload, "metadata", FullMetadata),
           Put(BasePayload, "metadata", EmptyObject) }

\* a payload with each required field kept, emptied ("") or removed
Variant(p, choice) ==
    [k \in {f \in DOMAIN p : f \notin RequiredFields \/ choice[f] # "absent"}
        |-> IF k \in RequiredFields /\ choice[k] = "empty" THEN "" ELSE p[k]]

InvalidPayloads ==
    { Variant(BasePayload, c) :
        c \in {d \in [RequiredFields -> {"keep", "empty", "absent"}] :
                  \E f \in RequiredFields : d[f] # "keep"} }

Bodies ==
    { [kind |-> "object", value |-> p] : p \in ValidPayloads \cup InvalidPayloads }
    \cup { [kind |-> "malformed", value |-> EmptyObject],   \* not JSON
           [kind |-> "null", value |-> EmptyObject] }       \* the JSON text null

NoBody == [kind |-> "none", value |-> EmptyObject]

Requests ==
    { [method |-> "OPTIONS", body |-> NoBody] }
    \cup { [method |-> "POST", body |-> b] : b \in Bodies }

NoRequest == [method |-> "", body |-> NoBody]

HttpStatuses == {200, 204, 500}

ErrorTexts == {"channel_not_found"}

Row(i, ws, active, types) ==
    [id |-> i, workspace_id |-> ws, platform |-> PlatformOf(i),
     webhook_url |-> UrlOf(i), notification_types |-> types,
     is_active |-> active]

Tables ==
    { [i \in Ids |-> Row(i, c[i][1], c[i][2], c[i][3])] :
        c \in [Ids -> Workspaces \X BOOLEAN \X TypeSets] }

Now == "2025-01-01T00:00:00.000Z"

----------------------------------------------------------------------------
(* Formatters (lines 31-161) *)

\* lines 145-152 with task_assignment falling to the default
getColorForTypeWithoutGreen(type) ==
    CASE type = "broadcast" -> 3900150
      [] type = "deadline_reminder" -> 16096779
      [] OTHER -> 7041664

getColorForType(type) ==
    CASE type = "broadcast" -> 3900150            \* 0x3B82F6
      [] type = "task_assignment" -> 1096065      \* 0x10B981
      [] type = "deadline_reminder" -> 16096779   \* 0xF59E0B
      [] OTHER -> 7041664                         \* 0x6B7280

getColorHexForType(type) ==
    CASE type = "broadcast" -> "3B82F6"
      [] type = "task_assignment" -> "10B981"
      [] type = "deadline_reminder" -> "F59E0B"
      [] OTHER -> "6B7280"

formatSlackMessage(payload) ==
    LET blocks ==
            << [type |-> "header",
                text |-> [type |-> "plain_text", text |-> payload["title"],
                          emoji |-> TRUE]],
               [type |-> "section",
                text |-> [type |-> "mrkdwn", text |-> payload["message"]]] >>
        actions ==
            [type |-> "actions",
             elements |->
                << [type |-> "button",
                    text |-> [type |-> "plain_text", text |-> "View in App",
                              emoji |-> TRUE],
                    url |-> payload["metadata"]["url"]] >>]
    IN  [blocks |-> IF MetaTruthy(payload, "url")
                    THEN Append(blocks, actions) ELSE blocks,
         text |-> <<payload["title"], ": ", payload["message"]>>]

\* lines 75-103 without the url of lines 87-89
formatDiscordMessageWithoutUrl(payload) ==
    LET embed0 == [title |-> payload["title"],
                   description |-> payload["message"],
                   color |-> getColorForType(payload["notification_type"]),
                   timestamp |-> Now]
        embed1 == IF MetaTruthy(payload, "sender_name")
                  THEN Put(embed0, "author",
                           [name |-> payload["metadata"]["sender_name"]])
                  ELSE embed0
        embed2 == embed1
        fields ==
            (IF MetaTruthy(payload, "priority")
             THEN << [name |-> "Priority",
                      value |-> payload["metadata"]["priority"],
                      inline |-> TRUE] >>
             ELSE << >>)
            \o
            (IF MetaTruthy(payload, "due_date")
             THEN << [name |-> "Due Date",
                      value |-> payload["metadata"]["due_date"],
                      inline |-> TRUE] >>
             ELSE << >>)
        embed == IF Len(fields) > 0 THEN Put(embed2, "fields", fields)
                 ELSE embed2
    IN  [embeds |-> <<embed>>]

\* lines 75-103 without the length test of line 98
formatDiscordMessageEmptyFields(payload) ==
    LET embed0 == [title |-> payload["title"],
                   description |-> payload["message"],
                   color |-> getColorForType(payload["notification_type"]),
                   timestamp |-> Now]
        embed1 == IF MetaTruthy(payload, "sender_name")
                  THEN Put(embed0, "author",
                           [name |-> payload["metadata"]["sender_name"]])
                  ELSE embed0
        embed2 == IF MetaTruthy(payload, "url")
                  THEN Put(embed1, "url", payload["metadata"]["url"])
                  ELSE embed1
        fields ==
            (IF MetaTruthy(payload, "priority")
             THEN << [name |-> "Priority",
                      value |-> payload["metadata"]["priority"],
                      inline |-> TRUE] >>
             ELSE << >>)
            \o
            (IF MetaTruthy(payload, "due_date")
             THEN << [name |-> "Due Date",
                      value |-> payload["metadata"]["due_date"],
                      inline |-> TRUE] >>
             ELSE << >>)
        embed == Put(embed2, "fields", fields)
    IN  [embeds |-> <<embed>>]

formatDiscordMessage(payload) ==
    LET embed0 == [title |-> payload["title"],
                   description |-> payload["message"],
                   color |-> getColorForType(payload["notification_type"]),
                   timestamp |-> Now]
        embed1 == IF MetaTruthy(payload, "sender_name")
                  THEN Put(embed0, "author",
                           [name |-> payload["metadata"]["sender_name"]])
                  ELSE embed0
        embed2 == IF MetaTruthy(payload, "url")
                  THEN Put(embed1, "url", payload["metadata"]["url"])
                  ELSE embed1
        fields ==
            (IF MetaTruthy(payload, "priority")
             THEN << [name |-> "Priority",
                      value |-> payload["metadata"]["priority"],
                      inline |-> TRUE] >>
             ELSE << >>)
            \o
            (IF MetaTruthy(payload, "due_date")
             THEN << [name |-> "Due Date",
                      value |-> payload["metadata"]["due_date"],
                      inline |-> TRUE] >>
             ELSE << >>)
        embed == IF Len(fields) > 0 THEN Put(embed2, "fields", fields)
                 ELSE embed2
    IN  [embeds |-> <<embed>>]

\* lines 106-132 without the || "System" of line 115
formatTeamsMessageWithoutFallback(payload) ==
    LET section0 == [activityTitle |-> payload["title"],
                     text |-> payload["message"]]
        section == IF MetaTruthy(payload, "sender_name")
                   THEN Put(section0, "activitySubtitle",
                            payload["metadata"]["sender_name"])
                   ELSE section0
        card ==
            [type |-> "MessageCard",
             context |-> "http://schema.org/extensions",
             themeColor |-> getColorHexForType(payload["notification_type"]),
             summary |-> payload["title"],
             sections |-> << section >>]
    IN  IF MetaTruthy(payload, "url")
        THEN Put(card, "potentialAction",
                 << [type |-> "OpenUri", name |-> "View in App",
                     targets |-> << [os |-> "default",
                                     uri |-> payload["metadata"]["url"]] >>] >>)
        ELSE card

formatTeamsMessage(payload) ==
    LET card ==
            [type |-> "MessageCard",
             context |-> "http://schema.org/extensions",
             themeColor |-> getColorHexForType(payload["notification_type"]),
             summary |-> payload["title"],
             sections |->
                << [activityTitle |-> payload["title"],
                    activitySubtitle |->
                        IF MetaTruthy(payload, "sender_name")
                        THEN payload["metadata"]["sender_name"]
                        ELSE "System",
                    text |-> payload["message"]] >>]
    IN  IF MetaTruthy(payload, "url")
        THEN Put(card, "potentialAction",
                 << [type |-> "OpenUri", name |-> "View in App",
                     targets |-> << [os |-> "default",
                                     uri |-> payload["metadata"]["url"]] >>] >>)
        ELSE card

formatGenericWebhook(payload) ==
    LET envelope == [type |-> payload["notification_type"],
                     title |-> payload["title"],
                     message |-> payload["message"],
                     timestamp |-> Now]
    IN  IF Has(payload, "metadata")
        THEN Put(envelope, "metadata", payload["metadata"])
        ELSE envelope

\* lines 219-231 without the case for teams
FormatBodyWithoutTeams(platform, payload) ==
    CASE platform = "slack" -> formatSlackMessage(payload)
      [] platform = "discord" -> formatDiscordMessage(payload)
      [] OTHER -> formatGenericWebhook(payload)

\* the switch on integration.platform (lines 219-231)
FormatBody(platform, payload) ==
    CASE platform = "slack" -> formatSlackMessage(payload)
      [] platform = "discord" -> formatDiscordMessage(payload)
      [] platform = "teams" -> formatTeamsMessage(payload)
      [] OTHER -> formatGenericWebhook(payload)

----------------------------------------------------------------------------
(* Responses (lines 4-7 and every new Response) *)

corsHeaders ==
    ("Access-Control-Allow-Origin" :> "*")
    @@ ("Access-Control-Allow-Headers"
            :> "authorization, x-client-info, apikey, content-type")

\* line 181 without the ...corsHeaders spread
jsonHeadersWithoutCors == ("Content-Type" :> "application/json")

jsonHeaders == corsHeaders @@ ("Content-Type" :> "application/json")

\* new Response(null, ...): no body
NullBody == <<>>

NoResponse == [status |-> 0, headers |-> <<>>, body |-> NullBody]

\* line 166
PreflightResponse ==
    [status |-> 200, headers |-> corsHeaders, body |-> NullBody]

\* lines 179-182 with a message that names no field
MissingFieldsResponseUnnamed ==
    [status |-> 400, headers |-> jsonHeaders,
     body |-> [error |-> "Missing required fields"]]

\* lines 179-182
MissingFieldsResponse ==
    [status |-> 400, headers |-> jsonHeaders,
     body |-> [error |->
        "Missing required fields: workspace_id, notification_type, title"]]

\* lines 192-198 with fetchError swallowed: answered as zero integrations
FetchFailedSwallowed ==
    [status |-> 200, headers |-> jsonHeaders,
     body |-> [success |-> TRUE, sent |-> 0,
               message |-> "No active integrations for this notification type"]]

\* lines 194-197
FetchFailedResponse ==
    [status |-> 500, headers |-> jsonHeaders,
     body |-> [error |-> "Failed to fetch integrations"]]

\* lines 208-211 answering an empty match as an error
NoIntegrationsAsNotFound ==
    [status |-> 404, headers |-> jsonHeaders,
     body |-> [error |-> "No active integrations for this notification type"]]

\* lines 208-211
NoIntegrationsResponse ==
    [status |-> 200, headers |-> jsonHeaders,
     body |-> [success |-> TRUE, sent |-> 0,
               message |-> "No active integrations for this notification type"]]

\* lines 271-275 answering without the caught error's message
CaughtResponseWithoutMessage(errorMessage) ==
    [status |-> 500, headers |-> jsonHeaders,
     body |-> [error |-> "Internal server error"]]

\* lines 269-275: the catch block, error instanceof Error
CaughtResponse(errorMessage) ==
    [status |-> 500, headers |-> jsonHeaders,
     body |-> [error |-> errorMessage]]

\* messages of the exceptions the runtime raises
JsonSyntaxError == "Unexpected token in JSON"
NullPayloadError == "Cannot read properties of null (reading 'workspace_id')"
QueryThrownError == "TypeError: fetch failed"
NullTypesError == "Cannot read properties of null (reading 'includes')"

\* line 243: `${platform} webhook failed: ${status} - ${errorText}`
WebhookFailedMessage(platform, status, errorText) ==
    <<platform, " webhook failed: ", status, " - ", errorText>>

\* message of the error fetch() rejects with (DNS, timeout, refused)
NetworkErrorMessage == <<"error sending request">>

\* message of the error response.text() rejects with
BodyReadErrorMessage == <<"error reading response body">>

----------------------------------------------------------------------------
(* Persistence collaborator and resolver (lines 186-203) *)

\* line 188 with a null notification_types read as an empty array
SelectColumnsCoalescing(row) ==
    [id |-> row.id, platform |-> row.platform,
     webhook_url |-> row.webhook_url,
     notification_types |->
         IF Has(row, "notification_types") THEN row.notification_types
         ELSE {}]

\* .select('id, platform, webhook_url, notification_types')
SelectColumns(row) ==
    LET columns == [id |-> row.id, platform |-> row.platform,
                    webhook_url |-> row.webhook_url]
    IN  IF Has(row, "notification_types")
        THEN Put(columns, "notification_types", row.notification_types)
        ELSE columns

\* line 189 without the .eq('is_active', true) of line 190
RowMatchesIgnoringActive(row, workspace_id) ==
    row.workspace_id = workspace_id

\* .eq('workspace_id', payload.workspace_id).eq('is_active', true)
RowMatches(row, workspace_id) ==
    row.workspace_id = workspace_id /\ row.is_active = TRUE

\* a query answered from the rows as they were before the latest edit
QueryIntegrationsCached(table, workspace_id) ==
    LET rows == [i \in 1..MaxIntegrations |->
                    IF i = lastEdit.id THEN lastEdit.before ELSE table[i]]
        Test(row) == RowMatches(row, workspace_id)
        hits == SelectSeq(rows, Test)
    IN  [i \in 1..Len(hits) |-> SelectColumns(hits[i])]

\* the rows the query returns, in id order
QueryIntegrations(table, workspace_id) ==
    LET rows == [i \in 1..MaxIntegrations |-> table[i]]
        Test(row) == RowMatches(row, workspace_id)
        hits == SelectSeq(rows, Test)
    IN  [i \in 1..Len(hits) |-> SelectColumns(hits[i])]

\* line 202 with the type test left out
HandlesAnyType(int, notification_type) == TRUE

\* int.notification_types.includes(payload.notification_type)
HandlesType(int, notification_type) ==
    notification_type \in int.notification_types

\* line 201
FilterRelevant(ints, notification_type) ==
    LET Test(int) == HandlesType(int, notification_type)
    IN  SelectSeq(ints, Test)

----------------------------------------------------------------------------
(* Dispatcher (lines 215-267) *)

\* line 241 testing for status 200 alone
ResponseOkOnly200(status) == status = 200

\* response.ok
ResponseOk(status) == status >= 200 /\ status <= 299

\* the promise of one async callback of relevantIntegrations.map; answered
\* and httpStatus record what the endpoint did (httpStatus 0: no HTTP answer)
Pending(integration) ==
    [status |-> "pending", platform |-> integration.platform,
     answered |-> "none", httpStatus |-> 0, reason |-> <<>>,
     overtook |-> FALSE]

\* the fetch() call of line 235
PostTo(integration, payload) ==
    [url |-> integration.webhook_url, method |-> "POST",
     headers |-> ("Content-Type" :> "application/json"),
     body |-> FormatBody(integration.platform, payload),
     integration |-> integration.id]

\* line 216 leaving the last relevant integration out
LaunchAllButLast(relevant, p) ==
    [i \in 1..(Len(relevant) - 1) |-> PostTo(relevant[i], p)]

\* relevantIntegrations.map(async ...): every callback runs to its fetch()
LaunchAll(relevant, p) ==
    [i \in 1..Len(relevant) |-> PostTo(relevant[i], p)]

Settled(promise) == promise.status \in {"fulfilled", "rejected"}

\* line 215 resolving as soon as one promise has settled
AnySettled(promises) ==
    \E i \in 1..Len(promises) : Settled(promises[i])

\* line 215 as Promise.all: resolves when all have settled, or at the
\* first rejection
AllOrFirstRejection(promises) ==
    \/ \A i \in 1..Len(promises) : Settled(promises[i])
    \/ \E i \in 1..Len(promises) : promises[i].status = "rejected"

\* line 215 resolving only when every promise has fulfilled
AllFulfilled(promises) ==
    \A i \in 1..Len(promises) : promises[i].status = "fulfilled"

\* Promise.allSettled resolves once every promise has settled
AllSettled(promises) ==
    \A i \in 1..Len(promises) : Settled(promises[i])

IsFulfilled(r) == r.status = "fulfilled"

IsRejected(r) == r.status = "rejected"

\* line 250 counting every result
successfulCountsAll(rs) == Len(rs)

\* line 250
successful(rs) == Len(SelectSeq(rs, IsFulfilled))

\* line 251 listing first the rejections that settled ahead of an
\* earlier promise
failedInSettlingOrder(rs) ==
    LET Ahead(r) == IsRejected(r) /\ r.overtook
        InTurn(r) == IsRejected(r) /\ ~r.overtook
    IN  SelectSeq(rs, Ahead) \o SelectSeq(rs, InTurn)

\* line 251
failed(rs) == SelectSeq(rs, IsRejected)

\* lines 259-267 answering 502 when no dispatch succeeded
AggregateResponseFailingWhenNoneSent(rs, relevant) ==
    [status |-> IF successful(rs) = 0 THEN 502 ELSE 200,
     headers |-> jsonHeaders,
     body |-> [success |-> successful(rs) > 0,
               sent |-> successful(rs),
               total |-> Len(relevant),
               failures |-> [i \in 1..Len(failed(rs)) |-> failed(rs)[i].reason]]]

\* lines 259-267
AggregateResponse(rs, relevant) ==
    [status |-> 200, headers |-> jsonHeaders,
     body |-> [success |-> TRUE,
               sent |-> successful(rs),
               total |-> Len(relevant),
               failures |-> [i \in 1..Len(failed(rs)) |-> failed(rs)[i].reason]]]

----------------------------------------------------------------------------
(* The handler *)

payload == req.body.value

\* line 178 with the title test left out
MissingRequiredIgnoringTitle(p) ==
    ~Truthy(p, "workspace_id") \/ ~Truthy(p, "notification_type")

\* line 178 with notification_type held to the interface's enumeration
MissingRequiredClosedEnum(p) ==
    \/ ~Truthy(p, "workspace_id") \/ ~Truthy(p, "notification_type")
    \/ ~Truthy(p, "title")
    \/ p["notification_type"] \notin
           {"broadcast", "task_assignment", "deadline_reminder",
            "channel_message"}

\* line 178 testing for absent properties only (=== undefined)
MissingRequiredAbsentOnly(p) ==
    ~Has(p, "workspace_id") \/ ~Has(p, "notification_type")
        \/ ~Has(p, "title")

\* line 178
MissingRequired(p) ==
    ~Truthy(p, "workspace_id") \/ ~Truthy(p, "notification_type")
        \/ ~Truthy(p, "title")

\* no edit yet: id 0
NoEdit == [id |-> 0, before |-> <<>>]

\* the locals of the handler's closure (lines 169-267)
Locals ==
    [pc |-> pc, req |-> req, lookups |-> lookups,
     queryOutcome |-> queryOutcome, integrations |-> integrations,
     relevantIntegrations |-> relevantIntegrations, posts |-> posts,
     results |-> results, response |-> response]

\* the locals of an invocation that has not started
FreshLocals ==
    [pc |-> "idle", req |-> NoRequest, lookups |-> 0,
     queryOutcome |-> "none", integrations |-> <<>>,
     relevantIntegrations |-> <<>>, posts |-> <<>>,
     results |-> <<>>, response |-> NoResponse]

\* the dispatch callback has not run
NoCall == [integrations |-> <<>>, payload |-> <<>>, posts |-> <<>>]

\* part_006 line 16
MANAGER_ROLES ==
    <<"WORKSPACE_OWNER", "OPERATIONS_MANAGER", "GROWTH_MANAGER",
      "TECH_FINANCE_MANAGER">>

NoToggle == [roleId |-> "", checked |-> FALSE, before |-> <<>>]

\* concurrent createWorkspace calls
MaxCalls == 2

Calls == 1..MaxCalls

\* the mutation has produced nothing yet
NoOutcome == [status |-> "none", message |-> "", id |-> 0]

NotCalled == [pc |-> "idle", user |-> "", params |-> <<>>,
              outcome |-> NoOutcome]

\* the panel before it is opened: the defaults of part_006 lines 47-50
PanelInit ==
    /\ requireApproval = FALSE
    /\ approvalRoles = <<"WORKSPACE_OWNER">>
    /\ lastToggle = NoToggle

\* no workspace yet, no createWorkspace call in progress
CreationInit ==
    /\ workspaces = <<>>
    /\ creators = [c \in Calls |-> NotCalled]

\* the rest of the application at rest
OutsideInit ==
    /\ call = NoCall
    /\ PanelInit
    /\ CreationInit

\* the handler registered on one of the tables, no request yet
NotifierInit(tables) ==
    /\ db \in tables
    /\ lastEdit = NoEdit
    /\ parked = FreshLocals
    /\ pc = "idle"
    /\ req = NoRequest
    /\ lookups = 0
    /\ queryOutcome = "none"
    /\ integrations = <<>>
    /\ relevantIntegrations = <<>>
    /\ posts = <<>>
    /\ results = <<>>
    /\ response = NoResponse

Init ==
    /\ db \in Tables
    /\ lastEdit = NoEdit
    /\ parked = FreshLocals
    /\ OutsideInit
    /\ pc = "idle"
    /\ req = NoRequest
    /\ lookups = 0
    /\ queryOutcome = "none"
    /\ integrations = <<>>
    /\ relevantIntegrations = <<>>
    /\ posts = <<>>
    /\ results = <<>>
    /\ response = NoResponse

\* line 165 never taking the preflight branch
IsPreflightNever(r) == FALSE

\* line 165
IsPreflight(r) == r.method = "OPTIONS"

Respond(resp) ==
    /\ response' = resp
    /\ pc' = "responded"

\* lines 163-174: a request arrives; the handler runs to await req.json().
\* Every invocation starts from scratch: nothing survives the previous one.
Receive(r) ==
    /\ pc = "idle"
    /\ req' = r
    /\ lookups' = 0
    /\ queryOutcome' = "none"
    /\ integrations' = <<>>
    /\ relevantIntegrations' = <<>>
    /\ posts' = <<>>
    /\ results' = <<>>
    /\ IF IsPreflight(r)
       THEN Respond(PreflightResponse)
       ELSE /\ pc' = "parsing"
            /\ response' = NoResponse
    /\ UNCHANGED <<outside, db, lastEdit, parked>>

\* lines 174-190: req.json() settles; validation; the query is issued.
ParseBody ==
    /\ pc = "parsing"
    /\ CASE req.body.kind = "malformed" ->
              /\ Respond(CaughtResponse(JsonSyntaxError))
              /\ UNCHANGED lookups
         [] req.body.kind = "null" ->
              /\ Respond(CaughtResponse(NullPayloadError))
              /\ UNCHANGED lookups
         [] OTHER ->
              IF MissingRequired(payload)
              THEN /\ Respond(MissingFieldsResponse)
                   /\ UNCHANGED lookups
              ELSE /\ pc' = "querying"
                   /\ lookups' = lookups + 1
                   /\ UNCHANGED response
    /\ UNCHANGED <<outside, db, lastEdit, parked, req, queryOutcome, integrations, relevantIntegrations,
                   posts, results>>

\* lines 186-198: the query fails, either as { error } or by throwing.
QueryFails(thrown) ==
    /\ pc = "querying"
    /\ queryOutcome' = IF thrown THEN "thrown" ELSE "error"
    /\ IF thrown
       THEN Respond(CaughtResponse(QueryThrownError))
       ELSE Respond(FetchFailedResponse)
    /\ UNCHANGED <<outside, db, lastEdit, parked, req, lookups, integrations, relevantIntegrations,
                   posts, results>>

\* line 202: int.notification_types.includes throws a TypeError on a row
\* whose notification_types is null or missing
FilterThrows(data) ==
    \E k \in 1..Len(data) : ~Has(data[k], "notification_types")

\* lines 186-248: the query returns data; filter; either the no-op answer
\* or every callback of map runs to its fetch(), in list order.
QueryReturns ==
    /\ pc = "querying"
    /\ queryOutcome' = "data"
    /\ LET data == QueryIntegrations(db, payload["workspace_id"])
           relevant == FilterRelevant(data, payload["notification_type"])
       IN  /\ integrations' = data
           /\ IF FilterThrows(data)
              THEN /\ Respond(CaughtResponse(NullTypesError))
                   /\ UNCHANGED <<relevantIntegrations, posts, results>>
              ELSE /\ relevantIntegrations' = relevant
                   /\ IF Len(relevant) = 0
                      THEN /\ Respond(NoIntegrationsResponse)
                           /\ UNCHANGED <<posts, results>>
                      ELSE /\ posts' = LaunchAll(relevant, payload)
                           /\ results' = [i \in 1..Len(relevant) |->
                                            Pending(relevant[i])]
                           /\ pc' = "dispatching"
                           /\ UNCHANGED response
    /\ UNCHANGED <<outside, db, lastEdit, parked, req, lookups>>

\* promise i settles while a promise before it in the list has not
Overtakes(i) ==
    \E j \in 1..(i - 1) : results[j].status \notin {"fulfilled", "rejected"}

\* lines 235-246: fetch() of promise i resolves with an HTTP response.
FetchResponds(i, httpStatus) ==
    /\ i \in 1..Len(results)
    /\ results[i].status = "pending"
    /\ results' = [results EXCEPT ![i] =
          [@ EXCEPT !.answered = "http", !.httpStatus = httpStatus,
                    !.status = IF ResponseOk(httpStatus)
                               THEN "fulfilled" ELSE "reading",
                    !.overtook = ResponseOk(httpStatus) /\ Overtakes(i)]]
    /\ UNCHANGED <<outside, db, lastEdit, parked, pc, req, lookups, queryOutcome, integrations,
                   relevantIntegrations, posts, response>>

\* line 235: fetch() of promise i rejects (network-level error).
FetchRejects(i) ==
    /\ i \in 1..Len(results)
    /\ results[i].status = "pending"
    /\ results' = [results EXCEPT ![i] =
          [@ EXCEPT !.answered = "network", !.status = "rejected",
                    !.reason = NetworkErrorMessage,
                    !.overtook = Overtakes(i)]]
    /\ UNCHANGED <<outside, db, lastEdit, parked, pc, req, lookups, queryOutcome, integrations,
                   relevantIntegrations, posts, response>>

\* lines 242-243: response.text() of a non-ok response settles; the
\* callback throws either the webhook-failed error or the read error.
ReadErrorText(i, errorText, readable) ==
    /\ i \in 1..Len(results)
    /\ results[i].status = "reading"
    /\ results' = [results EXCEPT ![i] =
          [@ EXCEPT !.status = "rejected",
                    !.overtook = Overtakes(i),
                    !.reason = IF readable
                               THEN WebhookFailedMessage(
                                        results[i].platform,
                                        results[i].httpStatus, errorText)
                               ELSE BodyReadErrorMessage]]
    /\ UNCHANGED <<outside, db, lastEdit, parked, pc, req, lookups, queryOutcome, integrations,
                   relevantIntegrations, posts, response>>

\* an aggregation that also switches off the rows whose POST failed
AggregateDeactivatingFailed ==
    /\ pc = "dispatching"
    /\ AllSettled(results)
    /\ Respond(AggregateResponse(results, relevantIntegrations))
    /\ db' = [i \in Ids |->
                IF \E k \in 1..Len(results) :
                       /\ IsRejected(results[k])
                       /\ relevantIntegrations[k].id = i
                THEN [db[i] EXCEPT !.is_active = FALSE]
                ELSE db[i]]
    /\ UNCHANGED <<outside, lastEdit, parked, req, lookups, queryOutcome, integrations,
                   relevantIntegrations, posts, results>>

\* lines 215, 250-267: allSettled resolves; the aggregate is returned.
Aggregate ==
    /\ pc = "dispatching"
    /\ AllSettled(results)
    /\ Respond(AggregateResponse(results, relevantIntegrations))
    /\ UNCHANGED <<outside, db, lastEdit, parked, req, lookups, queryOutcome, integrations,
                   relevantIntegrations, posts, results>>

\* the invocation is over; the next request finds a fresh handler
Finish ==
    /\ pc = "responded"
    /\ pc' = "idle"
    /\ req' = NoRequest
    /\ lookups' = 0
    /\ queryOutcome' = "none"
    /\ integrations' = <<>>
    /\ relevantIntegrations' = <<>>
    /\ posts' = <<>>
    /\ results' = <<>>
    /\ response' = NoResponse
    /\ UNCHANGED <<outside, db, lastEdit, parked>>

\* A workspace administrator edits one column of one row between two
\* invocations: (de)activates it, changes its subscriptions or moves it
\* out of or into a workspace.  lastEdit keeps the row as it was.
AdminEdit(i, row) ==
    /\ pc = "idle"
    /\ row.id = i
    /\ Cardinality({ c \in {"workspace_id", "notification_types", "is_active"} :
                        row[c] # db[i][c] }) = 1
    /\ db' = [db EXCEPT ![i] = row]
    /\ lastEdit' = [id |-> i, before |-> db[i]]
    /\ UNCHANGED <<outside, parked, pc, req, lookups, queryOutcome, integrations,
                   relevantIntegrations, posts, results, response>>

\* a switch that leaves the dispatch results where they are, as if they
\* were kept in a module-level variable
SwitchSharingResults ==
    /\ parked # Locals
    /\ parked' = Locals
    /\ pc' = parked.pc
    /\ req' = parked.req
    /\ lookups' = parked.lookups
    /\ queryOutcome' = parked.queryOutcome
    /\ integrations' = parked.integrations
    /\ relevantIntegrations' = parked.relevantIntegrations
    /\ posts' = parked.posts
    /\ response' = parked.response
    /\ UNCHANGED <<outside, db, lastEdit, results>>

\* Two invocations interleave at their awaits (lines 174, 186, 215, 235,
\* 242): the event loop leaves the running invocation, whose locals stay in
\* its closure, and resumes the other one.
Switch ==
    /\ parked # Locals
    /\ parked' = Locals
    /\ pc' = parked.pc
    /\ req' = parked.req
    /\ lookups' = parked.lookups
    /\ queryOutcome' = parked.queryOutcome
    /\ integrations' = parked.integrations
    /\ relevantIntegrations' = parked.relevantIntegrations
    /\ posts' = parked.posts
    /\ results' = parked.results
    /\ response' = parked.response
    /\ UNCHANGED <<outside, db, lastEdit>>

Next ==
    \/ \E r \in Requests : Receive(r)
    \/ Finish
    \/ ParseBody
    \/ \E thrown \in BOOLEAN : QueryFails(thrown)
    \/ QueryReturns
    \/ \E i \in Ids, s \in HttpStatuses : FetchResponds(i, s)
    \/ \E i \in Ids : FetchRejects(i)
    \/ \E i \in Ids, t \in ErrorTexts, readable \in BOOLEAN :
            ReadErrorText(i, t, readable)
    \/ Aggregate

Spec == Init /\ [][Next]_vars

----------------------------------------------------------------------------
(* What the requests and the table say, stated apart from the handler *)

HasPayload == req.method = "POST" /\ req.body.kind = "object"

AbsentOrEmpty(field) ==
    field \notin DOMAIN payload \/ payload[field] = ""

WellFormedRequest ==
    HasPayload /\ \A f \in RequiredFields : ~AbsentOrEmpty(f)

\* the rows the request is meant for
RelevantRowIds ==
    IF WellFormedRequest
    THEN { i \in Ids : /\ db[i].workspace_id = payload["workspace_id"]
                       /\ db[i].is_active
                       /\ payload["notification_type"]
                              \in db[i].notification_types }
    ELSE {}

PostsTo(i) ==
    Cardinality({ k \in 1..Len(posts) : posts[k].url = db[i].webhook_url })

Got2xx(r) ==
    r.answered = "http" /\ r.httpStatus \in 200..299

IsAggregate == pc = "responded" /\ "total" \in DOMAIN response.body

NoOpBody ==
    [success |-> TRUE, sent |-> 0,
     message |-> "No active integrations for this notification type"]

----------------------------------------------------------------------------
(* C1: a request whose payload lacks workspace_id, notification_type or    *)
(* title (absent or empty) is answered 400 and causes no lookup and no     *)
(* outbound POST at any point of its handling; a POST request whose body   *)
(* is no JSON object causes no lookup and no POST either.                  *)
C1_MissingFieldRejected ==
    /\ (HasPayload /\ \E f \in RequiredFields : AbsentOrEmpty(f)) =>
          /\ pc \in {"parsing", "responded"}
          /\ lookups = 0
          /\ Len(posts) = 0
          /\ pc = "responded" =>
                /\ response.status = 400
                /\ response.body = [error |->
                     "Missing required fields: workspace_id, notification_type, title"]
    /\ (req.method = "POST" /\ req.body.kind # "object") =>
          lookups = 0 /\ Len(posts) = 0

C1_Witness ==
    /\ HasPayload
    /\ "title" \notin DOMAIN payload
    /\ ~AbsentOrEmpty("workspace_id")
    /\ ~AbsentOrEmpty("notification_type")
    /\ pc = "responded"
    /\ response.status = 400
    /\ RowMatches(db[1], payload["workspace_id"])

(* C2: the aggregated response is a 200 whose sent is the number of        *)
(* dispatches answered 2xx, whose total is the number of relevant rows,    *)
(* and whose failures hold exactly one reason per dispatch not answered    *)
(* 2xx (in some order), so sent + Len(failures) = total.                   *)
C2_AggregateCounts ==
    IsAggregate =>
        LET body == response.body
            notOk == { i \in 1..Len(results) : ~Got2xx(results[i]) }
            n == Len(body.failures)
        IN  /\ response.status = 200
            /\ body.total = Cardinality(RelevantRowIds)
            /\ body.total = Len(results)
            /\ body.sent = Cardinality({ i \in 1..Len(results) :
                                            Got2xx(results[i]) })
            /\ n = Cardinality(notOk)
            /\ body.sent + n = body.total
            /\ \E f \in [1..n -> notOk] :
                  /\ \A j, k \in 1..n : j # k => f[j] # f[k]
                  /\ \A j \in 1..n : body.failures[j] = results[f[j]].reason

C2_Witness ==
    /\ IsAggregate
    /\ response.body.sent = 1
    /\ response.body.total = 2
    /\ Len(response.body.failures) = 1
    /\ results[1].answered = "http" /\ results[1].httpStatus = 500
    /\ results[2].answered = "http" /\ results[2].httpStatus = 200

(* C3: no outbound POST goes to an integration whose notification_types    *)
(* lacks the request's notification_type.                                  *)
C3_TypeFiltering ==
    \A i \in Ids :
        (HasPayload /\ Has(payload, "notification_type")
            /\ payload["notification_type"] \notin db[i].notification_types)
        => PostsTo(i) = 0

C3_Witness ==
    /\ Len(posts) > 0
    /\ \E i \in Ids :
          /\ db[i].is_active
          /\ db[i].workspace_id = payload["workspace_id"]
          /\ payload["notification_type"] \notin db[i].notification_types
          /\ PostsTo(i) = 0

(* C4: a row with is_active = false is never among the rows the resolver   *)
(* returns and never receives an outbound POST.                            *)
C4_InactiveExcluded ==
    \A i \in Ids :
        ~db[i].is_active =>
            /\ PostsTo(i) = 0
            /\ \A k \in 1..Len(integrations) : integrations[k].id # i
            /\ \A k \in 1..Len(relevantIntegrations) :
                  relevantIntegrations[k].id # i

C4_Witness ==
    /\ Len(posts) > 0
    /\ \E i \in Ids :
          /\ ~db[i].is_active
          /\ db[i].workspace_id = payload["workspace_id"]
          /\ payload["notification_type"] \in db[i].notification_types
          /\ PostsTo(i) = 0

(* C5: when the lookup returned data and no active row of the workspace    *)
(* is subscribed to the requested type, the response is the 200 no-op      *)
(* body and no outbound POST is made.                                      *)
C5_NoOpIsSuccess ==
    (queryOutcome = "data" /\ RelevantRowIds = {}) =>
        /\ pc = "responded"
        /\ response.status = 200
        /\ response.body = NoOpBody
        /\ Len(posts) = 0

C5_Witness ==
    /\ queryOutcome = "data"
    /\ RelevantRowIds = {}
    /\ pc = "responded"
    /\ \E i \in Ids :
          /\ db[i].is_active
          /\ db[i].workspace_id = payload["workspace_id"]
          /\ payload["notification_type"] \notin db[i].notification_types

(* C6: a failed lookup (an error result or an exception) ends the          *)
(* invocation with a 500 error body and no outbound POST, never with the   *)
(* no-op success body.                                                     *)
C6_LookupFailureIs500 ==
    queryOutcome \in {"error", "thrown"} =>
        /\ pc = "responded"
        /\ response.status = 500
        /\ DOMAIN response.body = {"error"}
        /\ Len(posts) = 0
        /\ Len(results) = 0

C6_Witness ==
    /\ queryOutcome = "error"
    /\ pc = "responded"
    /\ response.status = 500
    /\ RelevantRowIds # {}

(* C7: once POSTs have been issued, the response of the invocation is a    *)
(* 200 with success true, whatever the dispatch outcomes.                  *)
C7_DispatchNeverFails ==
    (pc = "responded" /\ Len(posts) > 0) =>
        /\ response.status = 200
        /\ response.body.success = TRUE

C7_Witness ==
    /\ IsAggregate
    /\ response.body.sent = 0
    /\ response.body.total >= 2
    /\ \E i \in 1..Len(results) : results[i].answered = "network"
    /\ \E i \in 1..Len(results) : results[i].answered = "http"

(* C8: once the lookup has returned data, every relevant row has exactly   *)
(* one outbound POST and every other row none, and this stays so while     *)
(* dispatches fail and after the response.                                 *)
C8_ExactlyOnePost ==
    queryOutcome = "data" =>
        \A i \in Ids : PostsTo(i) = IF i \in RelevantRowIds THEN 1 ELSE 0

C8_Witness ==
    /\ queryOutcome = "data"
    /\ Cardinality(RelevantRowIds) >= 2
    /\ \E i \in 1..Len(results) : results[i].status = "rejected"
    /\ pc = "responded"

(* C9: when the handler has responded, no dispatch of the invocation is    *)
(* still in flight: every promise is fulfilled or rejected.                *)
C9_ResponseAfterAllSettled ==
    pc = "responded" =>
        \A i \in 1..Len(results) : results[i].status \in {"fulfilled", "rejected"}

C9_Witness ==
    /\ IsAggregate
    /\ Len(results) >= 2
    /\ results[1].status = "rejected"
    /\ results[2].status = "fulfilled"

(* C10: a settled dispatch is fulfilled exactly when its POST was answered *)
(* 2xx; a non-2xx answer and a network error are rejections carrying a     *)
(* reason, and the aggregated response lists that reason in failures.      *)
C10_SuccessIff2xx ==
    \A i \in 1..Len(results) :
        LET r == results[i] IN
        /\ r.status = "fulfilled" => Got2xx(r)
        /\ (r.answered # "none" /\ Got2xx(r)) => r.status = "fulfilled"
        /\ r.status = "rejected" =>
              /\ ~Got2xx(r)
              /\ r.answered \in {"http", "network"}
              /\ Len(r.reason) > 0
              /\ r.answered = "network" => r.reason = NetworkErrorMessage
              /\ r.answered = "http" =>
                    \/ r.reason = BodyReadErrorMessage
                    \/ /\ Len(r.reason) = 5
                       /\ r.reason[1] = relevantIntegrations[i].platform
                       /\ r.reason[3] = r.httpStatus
                       /\ r.reason[5] \in ErrorTexts
              /\ IsAggregate =>
                    \E j \in 1..Len(response.body.failures) :
                        response.body.failures[j] = r.reason

C10_Witness ==
    /\ IsAggregate
    /\ Len(response.body.failures) = 2
    /\ \E i \in 1..Len(results) :
          results[i].answered = "network" /\ results[i].status = "rejected"
    /\ \E i \in 1..Len(results) :
          /\ results[i].answered = "http" /\ results[i].httpStatus = 500
          /\ results[i].status = "rejected"
          /\ Len(results[i].reason) = 5
    /\ \E i \in 1..Len(results) :
          results[i].httpStatus = 204 /\ results[i].status = "fulfilled"

----------------------------------------------------------------------------
(* Reading a message: the required fields whose names occur in it *)

Contains(message, word) ==
    \E i \in 1..(Len(message) - Len(word) + 1) :
        SubSeq(message, i, i + Len(word) - 1) = word

NamedFields(message) == { f \in RequiredFields : Contains(message, f) }

MissingFields == { f \in RequiredFields : AbsentOrEmpty(f) }

ValidationFailed == HasPayload /\ MissingFields # {} /\ pc = "responded"

(* C11 as claimed: the 400 error names exactly the fields that are         *)
(* missing from the request.                                               *)
C11_NamesExactlyMissing ==
    ValidationFailed =>
        /\ response.status = 400
        /\ NamedFields(response.body.error) = MissingFields

(* C11: whichever non-empty subset of the required fields is missing, the  *)
(* 400 error carries the same fixed message, which names all three         *)
(* required fields.                                                        *)
C11_FixedMessage ==
    ValidationFailed =>
        /\ response.status = 400
        /\ response.body.error =
             "Missing required fields: workspace_id, notification_type, title"
        /\ NamedFields(response.body.error) = RequiredFields

C11_Witness ==
    /\ ValidationFailed
    /\ MissingFields = {"notification_type"}
    /\ Has(payload, "notification_type")
    /\ payload["notification_type"] = ""
    /\ response.status = 400
    /\ NamedFields(response.body.error) = RequiredFields

(* C12: an OPTIONS request is answered at once, with status 200, the CORS  *)
(* headers and no body; its body is never parsed and it causes no lookup   *)
(* and no outbound POST.                                                   *)
C12_PreflightFirst ==
    req.method = "OPTIONS" =>
        /\ pc = "responded"
        /\ response.status = 200
        /\ response.body = NullBody
        /\ DOMAIN response.headers =
              {"Access-Control-Allow-Origin", "Access-Control-Allow-Headers"}
        /\ response.headers["Access-Control-Allow-Origin"] = "*"
        /\ response.headers["Access-Control-Allow-Headers"] =
              "authorization, x-client-info, apikey, content-type"
        /\ lookups = 0
        /\ queryOutcome = "none"
        /\ Len(posts) = 0

C12_Witness ==
    /\ req.method = "OPTIONS"
    /\ pc = "responded"
    /\ response.status = 200
    /\ \E i \in Ids : db[i].is_active /\ db[i].workspace_id = "w1"

\* the message of the exception the invocation has raised outside the
\* dispatch callbacks, "" when it has raised none
RaisedMessage ==
    CASE req.method = "POST" /\ req.body.kind = "malformed"
             /\ pc = "responded" -> "Unexpected token in JSON"
      [] req.method = "POST" /\ req.body.kind = "null"
             /\ pc = "responded" ->
                 "Cannot read properties of null (reading 'workspace_id')"
      [] queryOutcome = "thrown" -> "TypeError: fetch failed"
      [] OTHER -> ""

(* C13: an exception raised while parsing the body, reading the payload or *)
(* awaiting the lookup ends the invocation with a 500 JSON response whose  *)
(* error is the exception's message, and an invocation that has ended has  *)
(* a response.                                                             *)
C13_ExceptionsBecome500 ==
    /\ RaisedMessage # "" =>
          /\ pc = "responded"
          /\ response.status = 500
          /\ response.headers["Content-Type"] = "application/json"
          /\ response.body = [error |-> RaisedMessage]
    /\ pc = "responded" => response.status \in {200, 400, 500}
    /\ (pc = "idle") = (req = NoRequest)

C13_Witness ==
    /\ req.body.kind = "malformed"
    /\ pc = "responded"
    /\ response.status = 500
    /\ response.body.error = "Unexpected token in JSON"

(* C14: every response of the handler carries Access-Control-Allow-Origin  *)
(* "*" and Access-Control-Allow-Headers "authorization, x-client-info,     *)
(* apikey, content-type".                                                  *)
C14_CorsOnEveryResponse ==
    pc = "responded" =>
        /\ {"Access-Control-Allow-Origin", "Access-Control-Allow-Headers"}
              \subseteq DOMAIN response.headers
        /\ response.headers["Access-Control-Allow-Origin"] = "*"
        /\ response.headers["Access-Control-Allow-Headers"] =
              "authorization, x-client-info, apikey, content-type"

C14_Witness ==
    /\ IsAggregate
    /\ response.body.sent = response.body.total
    /\ response.body.total >= 2
    /\ response.headers["Access-Control-Allow-Origin"] = "*"

----------------------------------------------------------------------------
(* The handler while administrators edit the table between invocations *)

Rows(i) ==
    { Row(i, ws, active, types) :
        ws \in Workspaces, active \in BOOLEAN, types \in TypeSets }

WellFormedRequests ==
    { [method |-> "POST", body |-> [kind |-> "object", value |-> p]] :
        p \in ValidPayloads }

NextAdmin ==
    \/ \E i \in Ids : \E row \in Rows(i) : AdminEdit(i, row)
    \/ \E r \in WellFormedRequests : Receive(r)
    \/ Finish
    \/ ParseBody
    \/ QueryFails(FALSE)
    \/ QueryReturns
    \/ \E i \in Ids : FetchResponds(i, 200)
    \/ \E i \in Ids : FetchRejects(i)
    \/ Aggregate

SpecAdmin == Init /\ [][NextAdmin]_vars

\* would the row have received the current request?
Subscribed(row) ==
    /\ WellFormedRequest
    /\ row.workspace_id = payload["workspace_id"]
    /\ row.is_active
    /\ payload["notification_type"] \in row.notification_types

Edited(i) == lastEdit.id = i

\* C15: every invocation that passes validation performs its own lookup,
\* and its POSTs follow the table as it is at that lookup: a row that an
\* administrator deactivated, unsubscribed or moved away since the last
\* invocation gets no POST, a row activated, subscribed or moved in gets
\* exactly one.
C15_LookupPerInvocation ==
    /\ (WellFormedRequest /\ pc \in {"querying", "dispatching", "responded"})
           => lookups = 1
    /\ queryOutcome = "data" =>
           \A i \in Ids :
               /\ PostsTo(i) = (IF Subscribed(db[i]) THEN 1 ELSE 0)
               /\ (Edited(i) /\ Subscribed(lastEdit.before)
                       /\ ~Subscribed(db[i])) => PostsTo(i) = 0
               /\ (Edited(i) /\ ~Subscribed(lastEdit.before)
                       /\ Subscribed(db[i])) => PostsTo(i) = 1
    /\ queryOutcome # "data" => posts = <<>>

\* a row deactivated since the previous invocation is skipped while
\* another row of the workspace is posted to
C15_Witness ==
    /\ IsAggregate
    /\ lastEdit.id # 0
    /\ Subscribed(lastEdit.before)
    /\ ~db[lastEdit.id].is_active
    /\ PostsTo(lastEdit.id) = 0
    /\ Len(posts) > 0

\* a row activated since the previous invocation is posted to
C15_WitnessActivated ==
    /\ IsAggregate
    /\ lastEdit.id # 0
    /\ ~lastEdit.before.is_active
    /\ Subscribed(db[lastEdit.id])
    /\ PostsTo(lastEdit.id) = 1

\* C16: no step of the handler creates, modifies or deletes an
\* integration record: every step leaves the table as it was.
C16_RecordsUntouched == [][db' = db]_vars

\* an invocation has answered after a failed dispatch and the row it
\* failed for is still active
C16_Witness ==
    /\ IsAggregate
    /\ \E k \in 1..Len(results) :
           /\ IsRejected(results[k])
           /\ db[relevantIntegrations[k].id].is_active

\* the notification types of the WebhookPayload interface
KnownTypes ==
    {"broadcast", "task_assignment", "deadline_reminder", "channel_message"}

UnknownTypeRequest ==
    WellFormedRequest /\ payload["notification_type"] \notin KnownTypes

\* the colour a POST carries, for the platforms whose message has one
StyledGray(post) ==
    LET platform == PlatformOf(post.integration)
    IN  /\ platform = "discord" => post.body.embeds[1].color = 7041664
        /\ platform = "teams" => post.body.themeColor = "6B7280"

\* C17: a request whose notification_type is outside the enumeration is
\* not rejected by validation; it is posted once to every active row of
\* the workspace whose notification_types contains that exact string and
\* to no other row, and its messages carry the default gray.
C17_UnknownTypeDispatched ==
    UnknownTypeRequest =>
        /\ pc = "responded" => response.status # 400
        /\ pc \in {"querying", "dispatching"} => lookups = 1
        /\ queryOutcome = "data" =>
               \A i \in Ids :
                   PostsTo(i) =
                       IF /\ db[i].workspace_id = payload["workspace_id"]
                          /\ db[i].is_active
                          /\ payload["notification_type"]
                                 \in db[i].notification_types
                       THEN 1 ELSE 0
        /\ \A k \in 1..Len(posts) : StyledGray(posts[k])

\* a request of type "custom" has been posted to a Discord and a Teams
\* row subscribed to "custom", both in gray
C17_Witness ==
    /\ UnknownTypeRequest
    /\ IsAggregate
    /\ \E k \in 1..Len(posts) :
           /\ PlatformOf(posts[k].integration) = "discord"
           /\ posts[k].body.embeds[1].color = 7041664
    /\ \E k \in 1..Len(posts) :
           /\ PlatformOf(posts[k].integration) = "teams"
           /\ posts[k].body.themeColor = "6B7280"

\* the stages of one invocation, in the order of the code
Stage(p) ==
    CASE p = "idle" -> 0
      [] p = "parsing" -> 1          \* validating
      [] p = "querying" -> 2         \* lookup issued
      [] p = "dispatching" -> 3      \* POSTs in flight
      [] p = "responded" -> 4

ValidationFailedResponse == pc = "responded" /\ response.status = 400

LookupFailedResponse ==
    pc = "responded" /\ queryOutcome \in {"error", "thrown"}

\* a step of the pipeline: to the next stage, or to the response
InOrder ==
    pc' # pc =>
        \/ Stage(pc') = Stage(pc) + 1
        \/ pc' = "responded"
        \/ pc = "responded" /\ pc' = "idle"

\* the lookup is issued by the step that passes validation, the POSTs by
\* the step in which the lookup returns its rows
IssuedInOrder ==
    /\ lookups' # lookups =>
           \/ pc = "parsing" /\ pc' = "querying" /\ lookups' = 1
           \/ pc' = "idle"
    /\ posts' # posts =>
           \/ pc = "querying" /\ pc' = "dispatching"
                  /\ queryOutcome' = "data"
           \/ pc' = "idle"

\* after the response nothing happens but the end of the invocation
ResponseIsTerminal ==
    pc = "responded" => pc' = "idle" /\ lookups' = 0 /\ posts' = <<>>

\* C18: the steps of an invocation happen in the order validate, lookup,
\* dispatch, respond: no lookup before validation has passed, no POST
\* before the lookup has succeeded, and nothing runs after a validation
\* failure or a lookup failure.
C18_PipelineOrder ==
    /\ [](lookups > 0 => WellFormedRequest)
    /\ [](posts # <<>> => lookups = 1 /\ queryOutcome = "data")
    /\ [](ValidationFailedResponse =>
              lookups = 0 /\ queryOutcome = "none" /\ posts = <<>>)
    /\ [](LookupFailedResponse => posts = <<>> /\ results = <<>>)
    /\ [][InOrder /\ IssuedInOrder /\ ResponseIsTerminal]_vars

\* a lookup failure has ended an invocation whose validation passed
C18_Witness ==
    /\ LookupFailedResponse
    /\ WellFormedRequest
    /\ lookups = 1
    /\ \E i \in Ids : Subscribed(db[i])

InFlight(r) == r.status \in {"pending", "reading"}

\* C19: the POSTs of an invocation are all issued together, one per
\* relevant row, whatever becomes of the others; while a dispatch has
\* failed and another is still in flight the handler keeps waiting and
\* has not answered.
C19_LaunchedTogether ==
    /\ results # <<>> =>
           /\ Len(results) = Cardinality(RelevantRowIds)
           /\ Len(posts) = Len(results)
           /\ \A k \in 1..Len(results) :
                  posts[k].url = relevantIntegrations[k].webhook_url
    /\ (\E k \in 1..Len(results) : InFlight(results[k])) =>
           pc = "dispatching" /\ response = NoResponse

\* the first dispatch has failed, the second has not completed, and the
\* POSTs to both have been issued
C19_Witness ==
    /\ pc = "dispatching"
    /\ Len(results) >= 2
    /\ IsRejected(results[1])
    /\ results[2].status = "pending"
    /\ Len(posts) = Len(results)

----------------------------------------------------------------------------
(* Two interleaved invocations *)

\* tables whose rows are all active and in workspace "w1"
PairTables ==
    { t \in Tables :
        \A i \in Ids : t[i].is_active /\ t[i].workspace_id = "w1" }

PairRequests ==
    { [method |-> "OPTIONS", body |-> NoBody] }
    \cup { [method |-> "POST",
            body |-> [kind |-> "object", value |-> Put(BasePayload, "notification_type", t)]] :
             t \in RequestTypes }
    \cup { [method |-> "POST",
            body |-> [kind |-> "object",
                      value |-> [workspace_id |-> "w1", message |-> "Hello all"]]] }

InitPair ==
    /\ Init
    /\ db \in PairTables

NextPair ==
    \/ Switch
    \/ \E r \in PairRequests : Receive(r)
    \/ ParseBody
    \/ QueryFails(FALSE)
    \/ QueryReturns
    \/ \E i \in Ids : FetchResponds(i, 200)
    \/ \E i \in Ids : FetchRejects(i)
    \/ Aggregate
    \/ Finish

SpecPair == InitPair /\ [][NextPair]_vars

\* what an invocation with request r does when it runs alone on table db
PassesValidation(r) ==
    /\ r.method = "POST"
    /\ r.body.kind = "object"
    /\ ~MissingRequired(r.body.value)

AloneRelevant(r) ==
    FilterRelevant(QueryIntegrations(db, r.body.value["workspace_id"]),
                   r.body.value["notification_type"])

AlonePosts(r) == LaunchAll(AloneRelevant(r), r.body.value)

\* the response of a finished invocation alone, given the outcome of its
\* query and the answers its webhooks gave
AloneResponse(l) ==
    CASE l.req.method = "OPTIONS" -> PreflightResponse
      [] l.req.method = "POST" /\ ~PassesValidation(l.req) ->
             MissingFieldsResponse
      [] PassesValidation(l.req) /\ l.queryOutcome = "error" ->
             FetchFailedResponse
      [] PassesValidation(l.req) /\ l.queryOutcome = "data"
             /\ AloneRelevant(l.req) = <<>> -> NoIntegrationsResponse
      [] OTHER -> AggregateResponse(l.results, AloneRelevant(l.req))

\* the locals l are those of an invocation running alone
AsIfAlone(l) ==
    LET looked == PassesValidation(l.req)
                      /\ l.pc \in {"querying", "dispatching", "responded"}
        returned == looked /\ l.queryOutcome = "data"
    IN  /\ l.lookups = (IF looked THEN 1 ELSE 0)
        /\ l.queryOutcome # "none" => looked
        /\ l.posts = (IF returned THEN AlonePosts(l.req) ELSE <<>>)
        /\ Len(l.results) = Len(l.posts)
        /\ \A k \in 1..Len(l.results) :
               l.results[k].platform = AloneRelevant(l.req)[k].platform
        /\ l.response =
               (IF l.pc = "responded" THEN AloneResponse(l) ELSE NoResponse)

\* a step of one invocation leaves the locals of the other untouched
OtherUntouched ==
    \/ parked' = parked
    \/ parked' = Locals /\ Locals' = parked

\* C20: when two invocations run interleaved, the lookups, POSTs and
\* response of each are those it would have alone on the same table with
\* the same webhook answers, and no step of one writes the other's state.
C20_Independent ==
    /\ [](AsIfAlone(Locals) /\ AsIfAlone(parked))
    /\ [][OtherUntouched]_vars

\* both invocations have answered, one with an aggregate that counts a
\* failure, the other with 400, after running interleaved
C20_Witness ==
    /\ IsAggregate
    /\ response.body.sent < response.body.total
    /\ parked.pc = "responded"
    /\ parked.response.status = 400
    /\ parked.req # req

----------------------------------------------------------------------------
(* The per-integration dispatch callback (lines 216-239) on its own *)

\* "pagerduty" is a platform outside the Integration interface
CallPlatforms == {"slack", "discord", "teams", "webhook", "pagerduty"}

CallTypes ==
    {"broadcast", "task_assignment", "deadline_reminder", "channel_message",
     "custom"}

MetadataFields == {"url", "sender_name", "priority", "due_date"}

\* metadata with any subset of the fields the formatters read, and
\* metadata whose fields are all empty strings
CallMetadata ==
    { [f \in fs |-> FullMetadata[f]] : fs \in SUBSET MetadataFields }
    \cup { [f \in MetadataFields |-> ""] }

\* requests without metadata and with each metadata
CallPayloads ==
    { Put(BasePayload, "notification_type", t) : t \in CallTypes }
    \cup { Put(Put(BasePayload, "notification_type", t), "metadata", m) :
             t \in CallTypes, m \in CallMetadata }

CallIntegration(i, platform) ==
    [id |-> i, platform |-> platform, webhook_url |-> UrlOf(i),
     notification_types |-> CallTypes]

\* two relevant integrations of any two platforms
CallLists ==
    { <<CallIntegration(1, a), CallIntegration(2, b)>> :
        a \in CallPlatforms, b \in CallPlatforms }

\* relevantIntegrations.map(async (integration) => ... fetch(...))
DispatchTo(relevant, p) ==
    /\ call = NoCall
    /\ call' = [integrations |-> relevant, payload |-> p,
                posts |-> LaunchAll(relevant, p)]
    /\ UNCHANGED <<notifier, panel, creation>>

InitCall ==
    /\ Init
    /\ db \in PairTables
    /\ \A i \in Ids : db[i].notification_types = {"broadcast"}

NextCall ==
    \E relevant \in CallLists : \E p \in CallPayloads : DispatchTo(relevant, p)

SpecCall == InitCall /\ [][NextCall]_vars

\* what tells the four formats apart
IsSlackFormat(body) == DOMAIN body = {"blocks", "text"}

IsDiscordFormat(body) == DOMAIN body = {"embeds"}

IsTeamsFormat(body) ==
    /\ {"type", "themeColor", "sections"} \subseteq DOMAIN body
    /\ body.type = "MessageCard"

IsGenericEnvelope(body, p) ==
    /\ {"type", "title", "message", "timestamp"} \subseteq DOMAIN body
    /\ DOMAIN body \subseteq {"type", "title", "message", "timestamp",
                              "metadata"}
    /\ body.type = p["notification_type"]

InFormatOf(platform, body, p) ==
    CASE platform = "slack" -> IsSlackFormat(body)
      [] platform = "discord" -> IsDiscordFormat(body)
      [] platform = "teams" -> IsTeamsFormat(body)
      [] OTHER -> IsGenericEnvelope(body, p)

Called == call # NoCall

\* C21: each outbound POST goes to the webhook_url of one relevant
\* integration with the body in the format of that integration's
\* platform: Slack, Discord, Teams, and the generic envelope for webhook
\* and for any unrecognized platform.
C21_BodyMatchesPlatform ==
    Called =>
        /\ Len(call.posts) = Len(call.integrations)
        /\ \A k \in 1..Len(call.posts) :
               /\ call.posts[k].url = call.integrations[k].webhook_url
               /\ call.posts[k].method = "POST"
               /\ call.posts[k].headers["Content-Type"] = "application/json"
               /\ InFormatOf(call.integrations[k].platform,
                             call.posts[k].body, call.payload)
               /\ \A j \in 1..Len(call.integrations) :
                      j # k => call.posts[k].url
                                   # call.integrations[j].webhook_url

\* a Teams integration and one of an unrecognized platform are posted to,
\* each at its own URL in its own format
C21_Witness ==
    /\ Called
    /\ call.integrations[1].platform = "teams"
    /\ call.integrations[2].platform = "pagerduty"
    /\ IsTeamsFormat(call.posts[1].body)
    /\ IsGenericEnvelope(call.posts[2].body, call.payload)
    /\ call.posts[1].url = UrlOf(1)
    /\ call.posts[2].url = UrlOf(2)

HexDigit(c) ==
    CASE c = "0" -> 0 [] c = "1" -> 1 [] c = "2" -> 2 [] c = "3" -> 3
      [] c = "4" -> 4 [] c = "5" -> 5 [] c = "6" -> 6 [] c = "7" -> 7
      [] c = "8" -> 8 [] c = "9" -> 9 [] c = "A" -> 10 [] c = "B" -> 11
      [] c = "C" -> 12 [] c = "D" -> 13 [] c = "E" -> 14 [] c = "F" -> 15

\* the number a string of hexadecimal digits denotes
RECURSIVE HexValue(_)
HexValue(s) ==
    IF Len(s) = 0 THEN 0
    ELSE 16 * HexValue(SubSeq(s, 1, Len(s) - 1))
             + HexDigit(SubSeq(s, Len(s), Len(s)))

\* the color table of the specification
ColorTable(type) ==
    CASE type = "broadcast" -> "3B82F6"
      [] type = "task_assignment" -> "10B981"
      [] type = "deadline_reminder" -> "F59E0B"
      [] OTHER -> "6B7280"

\* C22: for every notification type, unknown ones included, the Discord
\* embed color and the Teams themeColor are the color of the table for
\* that type, the integer being the value of the hex string.
C22_SameColor ==
    /\ \A t \in CallTypes :
           /\ getColorHexForType(t) = ColorTable(t)
           /\ getColorForType(t) = HexValue(getColorHexForType(t))
    /\ Called =>
           \A k \in 1..Len(call.posts) :
               LET platform == call.integrations[k].platform
                   body == call.posts[k].body
                   color == ColorTable(call.payload["notification_type"])
               IN  /\ platform = "discord" =>
                          body.embeds[1].color = HexValue(color)
                   /\ platform = "teams" => body.themeColor = color

\* a task assignment is posted to Discord in 0x10B981 and to Teams in
\* "10B981"
C22_Witness ==
    /\ Called
    /\ call.payload["notification_type"] = "task_assignment"
    /\ call.integrations[1].platform = "discord"
    /\ call.integrations[2].platform = "teams"
    /\ call.posts[1].body.embeds[1].color = 1096065
    /\ call.posts[2].body.themeColor = "10B981"

\* metadata absent, or present and empty
NoMetadata(p) == ~Has(p, "metadata") \/ DOMAIN p["metadata"] = {}

\* the body has nothing but its mandatory elements
Bare(platform, body, p) ==
    CASE platform = "slack" ->
             /\ Len(body.blocks) = 2
             /\ body.blocks[1].type = "header"
             /\ body.blocks[2].type = "section"
      [] platform = "discord" ->
             /\ Len(body.embeds) = 1
             /\ DOMAIN body.embeds[1]
                    = {"title", "description", "color", "timestamp"}
      [] platform = "teams" ->
             /\ "potentialAction" \notin DOMAIN body
             /\ Len(body.sections) = 1
             /\ "activitySubtitle" \in DOMAIN body.sections[1]
             /\ body.sections[1].activitySubtitle = "System"
      [] OTHER ->
             /\ IsGenericEnvelope(body, p)
             /\ "metadata" \in DOMAIN body => DOMAIN body.metadata = {}

\* C23: for a request with absent or empty metadata every formatter
\* returns a body, and the body has every optional element omitted: Slack
\* only the header and section blocks, Discord no author, url or fields,
\* Teams no potentialAction and "System" as activitySubtitle.
C23_BareWithoutMetadata ==
    (Called /\ NoMetadata(call.payload)) =>
        /\ Len(call.posts) = Len(call.integrations)
        /\ \A k \in 1..Len(call.posts) :
               /\ "body" \in DOMAIN call.posts[k]
               /\ InFormatOf(call.integrations[k].platform,
                             call.posts[k].body, call.payload)
               /\ Bare(call.integrations[k].platform, call.posts[k].body,
                       call.payload)

\* a request with metadata {} has been formatted for Slack and for Teams
C23_Witness ==
    /\ Called
    /\ Has(call.payload, "metadata")
    /\ NoMetadata(call.payload)
    /\ call.integrations[1].platform = "slack"
    /\ call.integrations[2].platform = "teams"
    /\ Len(call.posts[1].body.blocks) = 2
    /\ call.posts[2].body.sections[1].activitySubtitle = "System"

\* the request carries metadata.field (a non-empty value)
Carries(p, field) ==
    /\ Has(p, "metadata")
    /\ Has(p["metadata"], field)
    /\ p["metadata"][field] # ""

ActionsBlocks(body) ==
    { b \in 1..Len(body.blocks) : body.blocks[b].type = "actions" }

\* the link element of a body: present with the URL, or absent
LinkIs(platform, body, url) ==
    CASE platform = "slack" ->
             /\ ActionsBlocks(body) = {3}
             /\ Len(body.blocks) = 3
             /\ Len(body.blocks[3].elements) = 1
             /\ body.blocks[3].elements[1].type = "button"
             /\ body.blocks[3].elements[1].text.text = "View in App"
             /\ body.blocks[3].elements[1].url = url
      [] platform = "discord" ->
             /\ "url" \in DOMAIN body.embeds[1]
             /\ body.embeds[1].url = url
      [] platform = "teams" ->
             /\ "potentialAction" \in DOMAIN body
             /\ Len(body.potentialAction) = 1
             /\ body.potentialAction[1].type = "OpenUri"
             /\ Len(body.potentialAction[1].targets) = 1
             /\ body.potentialAction[1].targets[1].uri = url
      [] OTHER -> TRUE

NoLink(platform, body) ==
    CASE platform = "slack" -> ActionsBlocks(body) = {}
      [] platform = "discord" -> "url" \notin DOMAIN body.embeds[1]
      [] platform = "teams" -> "potentialAction" \notin DOMAIN body
      [] OTHER -> TRUE

\* C24: the Slack actions block with its one "View in App" button, the
\* Discord embed url and the Teams OpenUri potentialAction are present
\* exactly when the request carries metadata.url, and each targets that
\* URL.
C24_LinkIffUrl ==
    Called =>
        \A k \in 1..Len(call.posts) :
            LET platform == call.integrations[k].platform
                body == call.posts[k].body
            IN  IF Carries(call.payload, "url")
                THEN LinkIs(platform, body, call.payload["metadata"]["url"])
                ELSE NoLink(platform, body)

\* a request with metadata.url and no other metadata has been formatted
\* for Slack and for Teams, both with the link
C24_Witness ==
    /\ Called
    /\ Has(call.payload, "metadata")
    /\ DOMAIN call.payload["metadata"] = {"url"}
    /\ call.integrations[1].platform = "slack"
    /\ call.integrations[2].platform = "teams"
    /\ LinkIs("slack", call.posts[1].body, "https://app/t1")
    /\ LinkIs("teams", call.posts[2].body, "https://app/t1")

PriorityEntry(p) ==
    [name |-> "Priority", value |-> p["metadata"]["priority"],
     inline |-> TRUE]

DueDateEntry(p) ==
    [name |-> "Due Date", value |-> p["metadata"]["due_date"],
     inline |-> TRUE]

\* the fields the embed is to have for request p
ExpectedFields(p) ==
    (IF Carries(p, "priority") THEN <<PriorityEntry(p)>> ELSE <<>>)
    \o (IF Carries(p, "due_date") THEN <<DueDateEntry(p)>> ELSE <<>>)

\* C25: the Discord embed's fields hold a Priority entry exactly when
\* metadata.priority is present and a Due Date entry exactly when
\* metadata.due_date is present, Priority first; with neither, the embed
\* has no fields key.
C25_DiscordFields ==
    Called =>
        \A k \in 1..Len(call.posts) :
            call.integrations[k].platform = "discord" =>
                LET embed == call.posts[k].body.embeds[1]
                    expected == ExpectedFields(call.payload)
                IN  IF expected = <<>>
                    THEN "fields" \notin DOMAIN embed
                    ELSE /\ "fields" \in DOMAIN embed
                         /\ embed.fields = expected

\* a request with priority and due date gives the two entries in order
C25_Witness ==
    /\ Called
    /\ call.integrations[1].platform = "discord"
    /\ Carries(call.payload, "priority")
    /\ Carries(call.payload, "due_date")
    /\ Len(call.posts[1].body.embeds[1].fields) = 2
    /\ call.posts[1].body.embeds[1].fields[1].name = "Priority"
    /\ call.posts[1].body.embeds[1].fields[2].name = "Due Date"
    /\ call.posts[1].body.embeds[1].fields[2].value = "2025-01-10"

----------------------------------------------------------------------------
(* The publish-settings panel (part_006) *)

Includes(roles, roleId) == \E k \in 1..Len(roles) : roles[k] = roleId

\* approvalRoles.filter(r => r !== roleId)
Without(roles, roleId) ==
    LET Keep(r) == r # roleId IN SelectSeq(roles, Keep)

\* position of a role id in JavaScript's default sort order
SortRank(roleId) ==
    CASE roleId = "GROWTH_MANAGER" -> 1
      [] roleId = "OPERATIONS_MANAGER" -> 2
      [] roleId = "TECH_FINANCE_MANAGER" -> 3
      [] roleId = "WORKSPACE_OWNER" -> 4

\* approvalRoles.sort() of line 90, which sorts the state array in place
\* at every render
RECURSIVE SortRoles(_)
SortRoles(roles) ==
    IF Len(roles) = 0 THEN <<>>
    ELSE LET least == CHOOSE k \in 1..Len(roles) :
                          \A j \in 1..Len(roles) :
                              SortRank(roles[k]) <= SortRank(roles[j])
             rest == [j \in 1..(Len(roles) - 1) |->
                         IF j < least THEN roles[j] ELSE roles[j + 1]]
         IN  <<roles[least]>> \o SortRoles(rest)

\* lines 77-86 without the length test of line 82
handleRoleToggleUnguarded(roles, roleId, checked) ==
    IF checked THEN Append(roles, roleId) ELSE Without(roles, roleId)

\* lines 77-86: the array handed to setApprovalRoles, or the array as it
\* is when the handler sets nothing
handleRoleToggle(roles, roleId, checked) ==
    IF checked
    THEN Append(roles, roleId)
    ELSE IF Len(roles) > 1 THEN Without(roles, roleId) ELSE roles

RoleIds == { MANAGER_ROLES[k] : k \in 1..Len(MANAGER_ROLES) }

\* the selections the panel can start from: the stored roles, or the
\* default of line 49
InitialSelections ==
    { SortRoles(roles) :
        roles \in { r \in UNION { [1..n -> RoleIds] : n \in 1..Len(MANAGER_ROLES) } :
                      \A i, j \in 1..Len(r) : i # j => r[i] # r[j] } }

\* lines 132-136: the switch "Require approval before publishing"
ToggleRequireApproval ==
    /\ requireApproval' = ~requireApproval
    /\ UNCHANGED <<notifier, call, approvalRoles, lastToggle, creation>>

\* lines 151-156: a checkbox of the role list reports the opposite of what
\* it shows; the handler runs and the panel renders again
ToggleRole(roleId) ==
    /\ requireApproval
    /\ LET checked == ~Includes(approvalRoles, roleId)
       IN  /\ approvalRoles' =
                  SortRoles(handleRoleToggle(approvalRoles, roleId, checked))
           /\ lastToggle' = [roleId |-> roleId, checked |-> checked,
                             before |-> approvalRoles]
    /\ UNCHANGED <<notifier, call, requireApproval, creation>>

\* one table, for the components that do not read it
OneTable == [i \in Ids |-> Row(i, "w1", TRUE, {"broadcast"})]

\* lines 47-50: the panel opens on the stored settings or on the defaults
InitPanel ==
    /\ NotifierInit({OneTable})
    /\ call = NoCall
    /\ CreationInit
    /\ requireApproval \in BOOLEAN
    /\ approvalRoles \in InitialSelections
    /\ lastToggle = NoToggle

NextPanel ==
    \/ ToggleRequireApproval
    \/ \E roleId \in RoleIds : ToggleRole(roleId)

SpecPanel == InitPanel /\ [][NextPanel]_vars

\* C26: in the publish-settings panel at least one approver role stays
\* selected through every sequence of role toggles from a non-empty
\* selection, and unchecking the only selected role leaves the selection
\* as it is.
C26_OneRoleRemains ==
    /\ Len(approvalRoles) >= 1
    /\ (lastToggle # NoToggle /\ ~lastToggle.checked
            /\ Len(lastToggle.before) = 1)
           => approvalRoles = lastToggle.before

\* the only selected role has been unchecked and is still selected
C26_Witness ==
    /\ lastToggle # NoToggle
    /\ ~lastToggle.checked
    /\ lastToggle.before = <<lastToggle.roleId>>
    /\ approvalRoles = <<lastToggle.roleId>>

\* the failure reasons of promises k, k+1, ... in list order
RECURSIVE ReasonsFrom(_)
ReasonsFrom(k) ==
    IF k > Len(results) THEN <<>>
    ELSE (IF results[k].status = "rejected"
          THEN <<results[k].reason>> ELSE <<>>) \o ReasonsFrom(k + 1)

\* C27: in whatever order the dispatches complete, the failure reasons of
\* the response are in the order in which their integrations stand in
\* the resolver's list.
C27_FailuresInListOrder ==
    IsAggregate => response.body.failures = ReasonsFrom(1)

\* the second integration failed before the first one did, and the
\* response names the first integration's failure first
C27_Witness ==
    /\ IsAggregate
    /\ Len(results) >= 2
    /\ IsRejected(results[1])
    /\ IsRejected(results[2])
    /\ results[2].overtook
    /\ results[1].answered = "http"
    /\ results[2].answered = "http"
    /\ response.body.failures[1][1] = relevantIntegrations[1].platform
    /\ response.body.failures[2][1] = relevantIntegrations[2].platform

----------------------------------------------------------------------------
(* The handler on a table with defective rows *)

\* a row whose notification_types is null: the column is missing
DefectiveRow(i, active) ==
    [id |-> i, workspace_id |-> "w1", platform |-> PlatformOf(i),
     webhook_url |-> UrlOf(i), is_active |-> active]

\* tables of workspace "w1" whose rows are well-formed or defective
RowsOrDefective(i) ==
    { Row(i, "w1", active, types) : active \in BOOLEAN, types \in TypeSets }
    \cup { DefectiveRow(i, active) : active \in BOOLEAN }

DefectiveTables ==
    { t \in [Ids -> UNION { RowsOrDefective(i) : i \in Ids }] :
        \A i \in Ids : t[i].id = i }

DefectiveRequests ==
    WellFormedRequests
    \cup { [method |-> "POST",
            body |-> [kind |-> "object",
                      value |-> Put(BasePayload, "workspace_id", "w2")]] }

InitDefective ==
    /\ NotifierInit(DefectiveTables)
    /\ OutsideInit

NextDefective ==
    \/ \E r \in DefectiveRequests : Receive(r)
    \/ ParseBody
    \/ QueryFails(FALSE)
    \/ QueryReturns
    \/ \E i \in Ids : FetchResponds(i, 200)
    \/ \E i \in Ids : FetchRejects(i)
    \/ Aggregate
    \/ Finish

SpecDefective == InitDefective /\ [][NextDefective]_vars

IsDefective(row) == "notification_types" \notin DOMAIN row

\* an active defective row of the requested workspace
DefectiveReturned ==
    /\ WellFormedRequest
    /\ \E i \in Ids :
           /\ IsDefective(db[i])
           /\ db[i].is_active
           /\ db[i].workspace_id = payload["workspace_id"]

\* C28: when an active row of the requested workspace has a null or
\* missing notification_types and the lookup returns, the invocation ends
\* with status 500 and no outbound POST, whatever well-formed rows of the
\* workspace are subscribed to the requested type.
C28_DefectiveRowFailsAll ==
    (DefectiveReturned /\ queryOutcome = "data") =>
        /\ pc = "responded"
        /\ response.status = 500
        /\ "error" \in DOMAIN response.body
        /\ posts = <<>>
        /\ results = <<>>

\* a 500 without POSTs although a well-formed active row of the workspace
\* is subscribed to the requested type
C28_Witness ==
    /\ DefectiveReturned
    /\ queryOutcome = "data"
    /\ response.status = 500
    /\ posts = <<>>
    /\ \E i \in Ids :
           /\ ~IsDefective(db[i])
           /\ db[i].is_active
           /\ db[i].workspace_id = payload["workspace_id"]
           /\ payload["notification_type"] \in db[i].notification_types

----------------------------------------------------------------------------
(* The handler when everything it awaits completes *)

\* the steps that follow the completion of something the handler awaits:
\* the body (174), the lookup (186), a fetch (235), a response text (242),
\* the gathering of the promises (215)
Completion ==
    \/ ParseBody
    \/ \E thrown \in BOOLEAN : QueryFails(thrown)
    \/ QueryReturns
    \/ \E i \in Ids : \E httpStatus \in HttpStatuses :
           FetchResponds(i, httpStatus)
    \/ \E i \in Ids : FetchRejects(i)
    \/ \E i \in Ids : \E errorText \in ErrorTexts : \E readable \in BOOLEAN :
           ReadErrorText(i, errorText, readable)
    \/ Aggregate

InitLive ==
    /\ NotifierInit(PairTables)
    /\ OutsideInit

SpecLive == InitLive /\ [][Next]_vars /\ WF_vars(Completion)

InProgress == pc \in {"parsing", "querying", "dispatching"}

\* the response is set once, by the step that ends the invocation, and
\* stays until the invocation is over
RespondsOnce ==
    response' # response =>
        \/ /\ response = NoResponse
           /\ pc # "responded"
           /\ pc' = "responded"
        \/ /\ pc = "responded"
           /\ pc' = "idle"
           /\ response' = NoResponse

\* C29: every invocation produces exactly one response, and when the body,
\* the lookup and every launched POST complete, with success or with an
\* error, the invocation responds.
C29_RespondsOnceAndEventually ==
    /\ [](pc = "responded" <=> response # NoResponse)
    /\ [][RespondsOnce]_vars
    /\ (InProgress ~> pc = "responded")

\* an invocation has responded after a POST that failed with an HTTP error
\* and one that succeeded had both completed
C29_Witness ==
    /\ IsAggregate
    /\ \E k \in 1..Len(results) :
           results[k].status = "rejected" /\ results[k].answered = "http"
    /\ \E k \in 1..Len(results) : results[k].status = "fulfilled"

----------------------------------------------------------------------------
(* useCreateWorkspace (part_002): concurrent createWorkspace calls *)

Events == {"e1", "e2"}

\* useAuth(): a signed-in user, or none
Users == {"u1", ""}

\* CreateWorkspaceParams; workspaceType and parentWorkspaceId are optional
CreateParams ==
    { [name |-> " Ops ", eventId |-> e] : e \in Events }
    \cup { [name |-> " Ops ", eventId |-> e, workspaceType |-> t] :
             e \in Events, t \in {"ROOT", "DEPARTMENT"} }
    \cup { [name |-> " Ops ", eventId |-> e, workspaceType |-> "DEPARTMENT",
            parentWorkspaceId |-> "p1"] : e \in Events }

\* line 44: the defaults of the destructuring
WorkspaceTypeOf(params) ==
    IF Has(params, "workspaceType") THEN params["workspaceType"] ELSE "ROOT"

ParentOf(params) ==
    IF Has(params, "parentWorkspaceId") THEN params["parentWorkspaceId"]
    ELSE ""

\* name.trim()
RECURSIVE Trim(_)
Trim(s) ==
    IF Len(s) = 0 THEN s
    ELSE IF SubSeq(s, 1, 1) = " " THEN Trim(SubSeq(s, 2, Len(s)))
    ELSE IF SubSeq(s, Len(s), Len(s)) = " "
         THEN Trim(SubSeq(s, 1, Len(s) - 1))
    ELSE s

Failure(message) == [status |-> "error", message |-> message, id |-> 0]

Created(id) == [status |-> "created", message |-> "", id |-> id]

\* .eq('event_id', eventId).eq('workspace_type', 'ROOT')
RootsOf(eventId) ==
    { k \in 1..Len(workspaces) :
        /\ workspaces[k].event_id = eventId
        /\ workspaces[k].workspace_type = "ROOT" }

\* lines 66-78: the row the insert adds
NewWorkspace(c) ==
    [id |-> Len(workspaces) + 1,
     name |-> Trim(creators[c].params["name"]),
     event_id |-> creators[c].params["eventId"],
     workspace_type |-> WorkspaceTypeOf(creators[c].params),
     parent_workspace_id |-> ParentOf(creators[c].params),
     organizer_id |-> creators[c].user,
     status |-> "ACTIVE"]

Throw(c, message) ==
    creators' = [creators EXCEPT ![c].pc = "done",
                                 ![c].outcome = Failure(message)]

\* lines 39-64: mutationFn runs to its first await
CreateWorkspace(c, user, params) ==
    /\ creators[c].pc = "idle"
    /\ LET started == [creators EXCEPT ![c].user = user, ![c].params = params]
           type == WorkspaceTypeOf(params)
       IN  creators' =
               IF user = ""
               THEN [started EXCEPT
                       ![c].pc = "done",
                       ![c].outcome = Failure(
                           "Must be authenticated to create a workspace")]
               ELSE IF type = "ROOT"
               THEN [started EXCEPT ![c].pc = "checking"]
               ELSE IF ParentOf(params) = ""
               THEN [started EXCEPT
                       ![c].pc = "done",
                       ![c].outcome = Failure(
                           "DEPARTMENT workspace requires a parent workspace")]
               ELSE [started EXCEPT ![c].pc = "inserting"]
    /\ UNCHANGED <<notifier, call, panel, workspaces>>

\* lines 49-60: the existence check returns
CheckReturns(c) ==
    /\ creators[c].pc = "checking"
    /\ LET found == Cardinality(RootsOf(creators[c].params["eventId"]))
       IN  CASE found = 0 ->
                    creators' = [creators EXCEPT ![c].pc = "inserting"]
             [] found = 1 ->
                    Throw(c, "A root workspace already exists for this event")
             [] OTHER ->
                    \* maybeSingle() on several rows returns an error
                    Throw(c, "JSON object requested, multiple (or no) rows returned")
    /\ UNCHANGED <<notifier, call, panel, workspaces>>

\* line 56: the existence check fails
CheckFails(c) ==
    /\ creators[c].pc = "checking"
    /\ Throw(c, "TypeError: Failed to fetch")
    /\ UNCHANGED <<notifier, call, panel, workspaces>>

\* lines 66-93: the insert returns the new row
InsertReturns(c) ==
    /\ creators[c].pc = "inserting"
    /\ workspaces' = Append(workspaces, NewWorkspace(c))
    /\ creators' = [creators EXCEPT ![c].pc = "done",
                                    ![c].outcome = Created(Len(workspaces) + 1)]
    /\ UNCHANGED <<notifier, call, panel>>

\* line 80: the insert fails
InsertFails(c) ==
    /\ creators[c].pc = "inserting"
    /\ Throw(c, "TypeError: Failed to fetch")
    /\ UNCHANGED <<notifier, call, panel, workspaces>>

InitCreate ==
    /\ NotifierInit({OneTable})
    /\ OutsideInit

NextCreate ==
    \/ \E c \in Calls : \E user \in Users : \E params \in CreateParams :
           CreateWorkspace(c, user, params)
    \/ \E c \in Calls : CheckReturns(c)
    \/ \E c \in Calls : CheckFails(c)
    \/ \E c \in Calls : InsertReturns(c)
    \/ \E c \in Calls : InsertFails(c)

SpecCreate == InitCreate /\ [][NextCreate]_vars

CreatedBy == { c \in Calls : creators[c].outcome.status = "created" }

RejectedAsDuplicate ==
    { c \in Calls :
        creators[c].outcome.message
            = "A root workspace already exists for this event" }

\* C30 as claimed: whatever createWorkspace calls have run, concurrent
\* calls for one event included, an event has at most one ROOT workspace,
\* and a ROOT creation for an event that has one fails with 'A root
\* workspace already exists for this event' and inserts nothing.
C30_AtMostOneRoot ==
    /\ \A e \in Events : Cardinality(RootsOf(e)) <= 1
    /\ Len(workspaces) = Cardinality(CreatedBy)
    /\ \A c \in RejectedAsDuplicate :
           /\ WorkspaceTypeOf(creators[c].params) = "ROOT"
           /\ RootsOf(creators[c].params["eventId"]) # {}

\* two calls for one event have both passed the check and both inserted
C30_TwoRoots ==
    /\ \E e \in Events : Cardinality(RootsOf(e)) = 2
    /\ \A c \in Calls : creators[c].outcome.status = "created"

\* what holds of the code: a call rejected as a duplicate was a ROOT
\* creation for an event that has a ROOT workspace, and only calls that
\* succeeded have inserted
C30_RejectedOnlyWhenRootExists ==
    /\ Len(workspaces) = Cardinality(CreatedBy)
    /\ \A c \in RejectedAsDuplicate :
           /\ WorkspaceTypeOf(creators[c].params) = "ROOT"
           /\ RootsOf(creators[c].params["eventId"]) # {}

====
